---- MODULE Spec2Model ----
(***************************************************************************)
(* Model of the AeroSpace socket client of src/src/aerospace.c: the        *)
(* connection life cycle (aerospace_new, aerospace_ensure_connected,       *)
(* reconnect, aerospace_close) and the framing loop of                     *)
(* execute_aerospace_command over the fixed-size read buffer.              *)
(*                                                                         *)
(* The byte stream is modelled at the granularity of tokens: one element   *)
(* of read_buf stands for one indivisible unit of the stream (a brace, a   *)
(* whitespace byte, or one "key":value member of the response object).     *)
(* READ_BUFFER_SIZE and AEROSPACE_RECONNECT_INTERVAL are scaled down from  *)
(* 8192 and 50 so that a full buffer and a used-up connection are reached. *)
(***************************************************************************)
EXTENDS Integers, Sequences, FiniteSets, TLC

\* src/src/aerospace.c:17  #define READ_BUFFER_SIZE 8192   (scaled)
READ_BUFFER_SIZE == 4
\* src/src/aerospace.h:8   #define AEROSPACE_RECONNECT_INTERVAL 50   (scaled)
AEROSPACE_RECONNECT_INTERVAL == 2
\* commands written on one handle before the model stops issuing more
MaxCount == 3
\* number of distinct request identities the peer echoes (cyclic)
NumIds == 3
\* longest chunk one read() of the unconstrained peer delivers
MaxChunk == 2
\* documents the pipelining peer writes back-to-back
NumDocs == 2
\* number of values of the C type int: 2^32, scaled
IntRange == 4

\* ------------------------------------------------------------------ bytes
\* A stream unit is <<key, type, value>>.
LB == <<"{", "", 0>>
RB == <<"}", "", 0>>
NL == <<"nl", "", 0>>
Member(key, type, v) == <<key, type, v>>
ExitCode(v) == Member("exitCode", "int", v)
Stdout(v) == Member("stdout", "str", v)
Stderr(v) == Member("stderr", "str", v)
Pad == Member("pad", "str", 0)

\* char* results: NULL, or a string (identified by its value)
NULL == <<>>
Str(v) == <<v>>

\* no descriptor
NoFd == -1

\* ------------------------------------------------------------------ yyjson
\* Index of the first non-whitespace unit of buf[i..len], len + 1 when none.
RECURSIVE SkipSpace(_, _, _)
SkipSpace(buf, len, i) ==
    IF i > len THEN len + 1
    ELSE IF buf[i] = NL THEN SkipSpace(buf, len, i + 1)
    ELSE i

\* Index of the brace closing the object whose members start at i, 0 when the
\* input ends first or holds a unit that cannot occur inside an object.
RECURSIVE ScanObject(_, _, _)
ScanObject(buf, len, i) ==
    IF i > len THEN 0
    ELSE IF buf[i] = RB THEN i
    ELSE IF buf[i] = LB THEN 0
    ELSE ScanObject(buf, len, i + 1)

IsMember(u) == u # LB /\ u # RB /\ u # NL

\* yyjson_read_opts(buf, len, YYJSON_READ_STOP_WHEN_DONE) followed by
\* yyjson_doc_get_read_size: leading whitespace is skipped, one object is
\* read, and nothing after its closing brace is looked at or consumed.
yyjson_read_opts(buf, len) ==
    LET first == SkipSpace(buf, len, 1)
        last == IF first <= len /\ buf[first] = LB
                THEN ScanObject(buf, len, first + 1) ELSE 0
    IN IF last = 0
       THEN [ok |-> FALSE, read_size |-> 0, root |-> <<>>]
       ELSE [ok |-> TRUE, read_size |-> last,
             root |-> SelectSeq(SubSeq(buf, first + 1, last - 1), IsMember)]

\* yyjson_obj_get: the first member with the key, <<>> when there is none.
RECURSIVE yyjson_obj_get(_, _)
yyjson_obj_get(root, key) ==
    IF root = <<>> THEN <<>>
    ELSE IF Head(root)[1] = key THEN Head(root)
    ELSE yyjson_obj_get(Tail(root), key)

yyjson_is_int(item) == item # <<>> /\ item[2] = "int"
yyjson_is_str(item) == item # <<>> /\ item[2] = "str"


\* ------------------------------------------------------------------ state
VARIABLES
    fd,                     \* client->fd, NoFd when no handle is held
    read_buf,               \* client->read_buf[0 .. read_buf_len)
    read_buf_len,           \* client->read_buf_len
    command_count,          \* client->command_count
    pc,                     \* "idle", "reading" (inside the read loop), "closed", "exited"
    op,                     \* the operation called last: "new", "ensure", "exec", "close"
    expected_output_field,  \* argument of the running execute_aerospace_command
    result,                 \* char* returned by the last execute_aerospace_command
    connected,              \* int returned by the last aerospace_ensure_connected
    diag,                   \* the last diagnostic the last operation printed
    open_fds,               \* descriptors of this process that socket() gave and close() has not taken
    conn_calls,             \* socket/connect/close calls the last operation made, in order
    sent,                   \* commands written to the socket behind fd since it was connected
    wire,                   \* bytes the peer has written that no read() has returned yet
    awaiting,               \* identities of the commands the peer has read and not answered yet
    req_id,                 \* identity of the command written last
    entry_buf,              \* read_buf when the running command entered the read loop
    delivered               \* what each read() of the running command returned, in order

client_vars == <<fd, read_buf, read_buf_len, command_count, pc, op, expected_output_field,
                 result, connected, diag, open_fds, conn_calls, sent, entry_buf, delivered>>
peer_vars == <<wire, awaiting, req_id>>
vars == <<fd, read_buf, read_buf_len, command_count, pc, op, expected_output_field,
          result, connected, diag, open_fds, conn_calls, sent,
          wire, awaiting, req_id, entry_buf, delivered>>

\* ------------------------------------------------------------------ sockets
ConnectOutcomes == {"ok", "socket_fails", "connect_fails"}

\* socket() returns the lowest descriptor that is not open (0, 1, 2 are taken).
LowestFree(open) ==
    CHOOSE n \in 3..(3 + Cardinality(open)) :
        n \notin open /\ \A m \in 3..(n - 1) : m \in open

\* connect_socket without the close of line 93: a failed connect() leaves
\* the new descriptor open
connect_socket_leaks(open, how) ==
    LET new == LowestFree(open)
    IN CASE how = "socket_fails" ->
              [fd |-> NoFd, open_fds |-> open, calls |-> <<"socket">>]
         [] how = "connect_fails" ->
              [fd |-> NoFd, open_fds |-> open \cup {new}, calls |-> <<"socket", "connect">>]
         [] OTHER ->
              [fd |-> new, open_fds |-> open \cup {new}, calls |-> <<"socket", "connect">>]

\* connect_socket: the descriptor returned, the descriptors left open and the
\* calls made, for each way socket() and connect() can end.
connect_socket(open, how) ==
    LET new == LowestFree(open)
    IN CASE how = "socket_fails" ->
              [fd |-> NoFd, open_fds |-> open, calls |-> <<"socket">>]
         [] how = "connect_fails" ->
              [fd |-> NoFd, open_fds |-> open, calls |-> <<"socket", "connect", "close">>]
         [] OTHER ->
              [fd |-> new, open_fds |-> open \cup {new}, calls |-> <<"socket", "connect">>]

\* reconnect as it would be without line 118: the counter survives
reconnect_keeps_count(how) ==
    LET held == fd >= 0
        c == connect_socket(IF held THEN open_fds \ {fd} ELSE open_fds, how)
    IN /\ fd' = c.fd
       /\ read_buf_len' = 0
       /\ read_buf' = <<>>
       /\ UNCHANGED command_count
       /\ open_fds' = c.open_fds
       /\ conn_calls' = (IF held THEN <<"close">> ELSE <<>>) \o c.calls
       /\ sent' = 0

\* reconnect as it would be without line 117: the buffered bytes survive
reconnect_keeps_buffer(how) ==
    LET held == fd >= 0
        c == connect_socket(IF held THEN open_fds \ {fd} ELSE open_fds, how)
    IN /\ fd' = c.fd
       /\ UNCHANGED <<read_buf, read_buf_len>>
       /\ command_count' = 0
       /\ open_fds' = c.open_fds
       /\ conn_calls' = (IF held THEN <<"close">> ELSE <<>>) \o c.calls
       /\ sent' = 0

\* reconnect: closes the held descriptor, clears buffer and counter, connects.
reconnect(how) ==
    LET held == fd >= 0
        c == connect_socket(IF held THEN open_fds \ {fd} ELSE open_fds, how)
    IN /\ fd' = c.fd
       /\ read_buf_len' = 0
       /\ read_buf' = <<>>
       /\ command_count' = 0
       /\ open_fds' = c.open_fds
       /\ conn_calls' = (IF held THEN <<"close">> ELSE <<>>) \o c.calls
       /\ sent' = 0

\* aerospace_ensure_connected without the refresh of lines 277-283
NeedsRefreshNever(count) == FALSE

\* line 280 with > for >=
NeedsRefreshLate(count) == count > AEROSPACE_RECONNECT_INTERVAL

\* aerospace_ensure_connected, line 280: the handle has carried enough commands
NeedsRefresh(count) == count >= AEROSPACE_RECONNECT_INTERVAL

\* aerospace_new: the state it returns, for each way the first connect can end.
aerospace_new(how) ==
    LET c == connect_socket({}, how)
    IN /\ fd = c.fd
       /\ read_buf = <<>>
       /\ read_buf_len = 0
       /\ command_count = 0
       /\ pc = "idle"
       /\ op = "new"
       /\ expected_output_field = ""
       /\ result = NULL
       /\ connected = 0
       /\ diag = IF c.fd < 0 THEN "connect_warning" ELSE "none"
       /\ open_fds = c.open_fds
       /\ conn_calls = c.calls
       /\ sent = 0
       /\ entry_buf = <<>>
       /\ delivered = <<>>

\* aerospace_ensure_connected without lines 271-275: no handle, no new attempt
EnsureDisconnectedNoRetry(how) ==
    /\ pc = "idle"
    /\ fd < 0
    /\ op' = "ensure"
    /\ diag' = "reconnect_failed"
    /\ connected' = 0
    /\ result' = NULL
    /\ conn_calls' = <<>>
    /\ entry_buf' = <<>>
    /\ delivered' = <<>>
    /\ UNCHANGED <<fd, read_buf, read_buf_len, command_count, open_fds, sent,
                   pc, expected_output_field>>

\* aerospace_ensure_connected with no handle held: reconnect, whatever the count.
EnsureDisconnected(how) ==
    /\ pc = "idle"
    /\ fd < 0
    /\ reconnect(how)
    /\ op' = "ensure"
    /\ diag' = IF fd' >= 0 THEN "reconnected" ELSE "reconnect_failed"
    /\ connected' = IF fd' >= 0 THEN 1 ELSE 0
    /\ result' = NULL
    /\ entry_buf' = <<>>
    /\ delivered' = <<>>
    /\ UNCHANGED <<pc, expected_output_field>>

\* aerospace_ensure_connected with a handle that has carried enough commands.
EnsureRefresh(how) ==
    /\ pc = "idle"
    /\ fd >= 0
    /\ NeedsRefresh(command_count)
    /\ reconnect(how)
    /\ op' = "ensure"
    /\ diag' = IF fd' >= 0 THEN "proactive_refresh" ELSE "reconnect_failed"
    /\ connected' = IF fd' >= 0 THEN 1 ELSE 0
    /\ result' = NULL
    /\ entry_buf' = <<>>
    /\ delivered' = <<>>
    /\ UNCHANGED <<pc, expected_output_field>>

\* aerospace_ensure_connected with a handle that is kept.
EnsureKeep ==
    /\ pc = "idle"
    /\ fd >= 0
    /\ ~NeedsRefresh(command_count)
    /\ op' = "ensure"
    /\ diag' = "none"
    /\ connected' = IF fd >= 0 THEN 1 ELSE 0
    /\ result' = NULL
    /\ conn_calls' = <<>>
    /\ entry_buf' = <<>>
    /\ delivered' = <<>>
    /\ UNCHANGED <<fd, read_buf, read_buf_len, command_count, open_fds, sent,
                   pc, expected_output_field>>

\* aerospace_close: closes the handle if one is held and frees the client.
aerospace_close ==
    /\ pc = "idle"
    /\ pc' = "closed"
    /\ op' = "close"
    /\ fd' = NoFd
    /\ open_fds' = IF fd >= 0 THEN open_fds \ {fd} ELSE open_fds
    /\ conn_calls' = IF fd >= 0 THEN <<"close">> ELSE <<>>
    /\ diag' = "none"
    /\ result' = NULL
    /\ connected' = 0
    /\ sent' = 0
    /\ entry_buf' = <<>>
    /\ delivered' = <<>>
    /\ UNCHANGED <<read_buf, read_buf_len, command_count, expected_output_field>>

\* ------------------------------------------------------------------ execute_aerospace_command
\* argument lists the callers pass: aerospace_workspace 2 or 3 arguments and no
\* output field, aerospace_list_workspaces 3 or 5 and "stdout"; 0 is the empty list
ArgCounts == {0, 2, 3, 5}
OutputFields == {"", "stdout"}

\* lines 169-171 and 204-206 without the reset of read_buf_len
DropConnectionKeepsBuffer ==
    /\ fd' = NoFd
    /\ UNCHANGED <<read_buf, read_buf_len>>
    /\ open_fds' = open_fds \ {fd}
    /\ conn_calls' = <<"close">>
    /\ sent' = 0

\* lines 169-171 and 204-206: close the handle, forget it, clear the buffer
DropConnection ==
    /\ fd' = NoFd
    /\ read_buf_len' = 0
    /\ read_buf' = <<>>
    /\ open_fds' = open_fds \ {fd}
    /\ conn_calls' = <<"close">>
    /\ sent' = 0

\* line 176 left out
CountCommandSkipped(count) == count

\* line 176
CountCommand(count) == count + 1

\* line 190 with > for >=
OverflowedLate(len) == len > READ_BUFFER_SIZE

\* line 190: the buffer is full
Overflowed(len) == len >= READ_BUFFER_SIZE

\* line 195 with the whole capacity as the count argument
ReadLimitWholeBuffer(len) == READ_BUFFER_SIZE

\* line 195: the count argument of read()
ReadLimit(len) == READ_BUFFER_SIZE - len

\* line 195 with read_buf for read_buf + read_buf_len: the bytes go in front
StoreReadInFront(buf, len, chunk) == chunk \o SubSeq(buf, 1, len)

\* line 195 and 209: read() stores the bytes after the valid ones
StoreRead(buf, len, chunk) == SubSeq(buf, 1, len) \o chunk

\* the buffer emptied after a parsed document instead of compacted
CompactDropsRest(buf, len, parsed_bytes) ==
    [read_buf |-> <<>>, read_buf_len |-> 0]

\* lines 212-215: the bytes after the parsed document move to the front
Compact(buf, len, parsed_bytes) ==
    [read_buf |-> IF len > parsed_bytes THEN SubSeq(buf, parsed_bytes + 1, len) ELSE <<>>,
     read_buf_len |-> len - parsed_bytes]

\* line 222: the 64-bit JSON integer is converted to int, which keeps it
\* modulo the range of int (2^32, scaled here to IntRange)
CastToInt(v) == v % IntRange

\* ExtractResult reading a missing or non-integer exitCode as 0
ExtractResultLenient(root, field) ==
    LET outItem == yyjson_obj_get(root, field)
    IN [result |-> IF field # "" /\ yyjson_is_str(outItem) THEN Str(outItem[3]) ELSE NULL,
        diag |-> "none"]

\* lines 217-242: NULL or the string to return, and the diagnostic printed
ExtractResult(root, field) ==
    LET exitCodeItem == yyjson_obj_get(root, "exitCode")
        errItem == yyjson_obj_get(root, "stderr")
        outItem == yyjson_obj_get(root, field)
    IN IF ~yyjson_is_int(exitCodeItem)
       THEN [result |-> NULL, diag |-> "no_exit_code"]
       ELSE IF CastToInt(exitCodeItem[3]) # 0
       THEN [result |-> IF yyjson_is_str(errItem) THEN Str(errItem[3]) ELSE NULL,
             diag |-> "none"]
       ELSE IF field # ""
       THEN [result |-> IF yyjson_is_str(outItem) THEN Str(outItem[3]) ELSE NULL,
             diag |-> "none"]
       ELSE [result |-> NULL, diag |-> "none"]

\* what every return of execute_aerospace_command before the read loop shares
Rejected(why) ==
    /\ op' = "exec"
    /\ result' = NULL
    /\ diag' = why
    /\ connected' = 0
    /\ entry_buf' = <<>>
    /\ delivered' = <<>>
    /\ UNCHANGED <<pc, expected_output_field>>

\* lines 131-135: no argument list
ExecInvalid ==
    /\ pc = "idle"
    /\ Rejected("invalid_arguments")
    /\ conn_calls' = <<>>
    /\ UNCHANGED <<fd, read_buf, read_buf_len, command_count, open_fds, sent>>

\* lines 137-140: no handle
ExecNotConnected(arg_count) ==
    /\ pc = "idle"
    /\ arg_count # 0
    /\ fd < 0
    /\ Rejected("not_connected")
    /\ conn_calls' = <<>>
    /\ UNCHANGED <<fd, read_buf, read_buf_len, command_count, open_fds, sent>>

\* lines 153-157: the request cannot be serialized; fatal_error exits
ExecFatal(arg_count) ==
    /\ pc = "idle"
    /\ arg_count # 0
    /\ fd >= 0
    /\ pc' = "exited"
    /\ op' = "exec"
    /\ diag' = "fatal"
    /\ result' = NULL
    /\ connected' = 0
    /\ conn_calls' = <<>>
    /\ entry_buf' = <<>>
    /\ delivered' = <<>>
    /\ UNCHANGED <<fd, read_buf, read_buf_len, command_count, open_fds, sent,
                   expected_output_field>>

\* lines 166-173: writev fails
ExecWriteFailed(arg_count) ==
    /\ pc = "idle"
    /\ arg_count # 0
    /\ fd >= 0
    /\ DropConnection
    /\ Rejected("write_failed")
    /\ UNCHANGED command_count

\* lines 166-180: writev succeeds, the command is counted, the read loop starts
ExecWritten(arg_count, field) ==
    /\ pc = "idle"
    /\ arg_count # 0
    /\ fd >= 0
    /\ command_count < MaxCount
    /\ command_count' = CountCommand(command_count)
    /\ sent' = sent + 1
    /\ pc' = "reading"
    /\ op' = "exec"
    /\ expected_output_field' = field
    /\ result' = NULL
    /\ diag' = "none"
    /\ connected' = 0
    /\ conn_calls' = <<>>
    /\ entry_buf' = SubSeq(read_buf, 1, read_buf_len)
    /\ delivered' = <<>>
    /\ UNCHANGED <<fd, read_buf, read_buf_len, open_fds>>

\* lines 183-188: the buffer holds a complete document
HasDocument == read_buf_len > 0 /\ yyjson_read_opts(read_buf, read_buf_len).ok

\* lines 183-188 and 212-242: the document is parsed, the buffer compacted, the
\* result extracted and returned
ExecParsed ==
    /\ pc = "reading"
    /\ HasDocument
    /\ LET doc == yyjson_read_opts(read_buf, read_buf_len)
           rest == Compact(read_buf, read_buf_len, doc.read_size)
           out == ExtractResult(doc.root, expected_output_field)
       IN /\ read_buf' = rest.read_buf
          /\ read_buf_len' = rest.read_buf_len
          /\ result' = out.result
          /\ diag' = out.diag
    /\ pc' = "idle"
    /\ UNCHANGED <<fd, command_count, op, expected_output_field, connected,
                   open_fds, conn_calls, sent, entry_buf, delivered>>

\* lines 190-194: the buffer is full and holds no complete document
ExecOverflow ==
    /\ pc = "reading"
    /\ ~HasDocument
    /\ Overflowed(read_buf_len)
    /\ read_buf_len' = 0
    /\ read_buf' = <<>>
    /\ result' = NULL
    /\ diag' = "overflow"
    /\ pc' = "idle"
    /\ UNCHANGED <<fd, command_count, op, expected_output_field, connected,
                   open_fds, conn_calls, sent, entry_buf, delivered>>

\* line 196 testing bytes_read < 0: a read of no bytes is taken as data
NoBytesNegativeOnly(bytes_read) == bytes_read < 0

\* line 196: read() delivered nothing
NoBytes(bytes_read) == bytes_read <= 0

\* lines 195 and 209: read() returns the bytes of chunk
ExecRead(chunk) ==
    /\ pc = "reading"
    /\ ~HasDocument
    /\ ~Overflowed(read_buf_len)
    /\ ~NoBytes(Len(chunk))
    /\ Len(chunk) <= ReadLimit(read_buf_len)
    /\ read_buf' = StoreRead(read_buf, read_buf_len, chunk)
    /\ read_buf_len' = read_buf_len + Len(chunk)
    /\ delivered' = Append(delivered, chunk)
    /\ UNCHANGED <<fd, command_count, pc, op, expected_output_field, result,
                   connected, diag, open_fds, conn_calls, sent, entry_buf>>

\* what read() can return without bytes: 0, -1 with EAGAIN, -1 otherwise
ReadFailures == {"closed_by_peer", "read_timeout", "read_error"}

\* lines 196-208: read() returns no bytes
ExecReadFailed(why) ==
    /\ pc = "reading"
    /\ ~HasDocument
    /\ ~Overflowed(read_buf_len)
    /\ DropConnection
    /\ result' = NULL
    /\ diag' = why
    /\ pc' = "idle"
    /\ UNCHANGED <<command_count, op, expected_output_field, connected,
                   entry_buf, delivered>>

\* ------------------------------------------------------------------ any peer
\* The peer may send anything: every read() returns some bytes of PeerBytes,
\* or fails.  The bytes in flight are not tracked.
PeerBytes == {LB, RB, NL, ExitCode(0)}

Chunks(n) == UNION {[1..k -> PeerBytes] : k \in 1..n}

Min(a, b) == IF a <= b THEN a ELSE b

NoPeer ==
    /\ wire = <<>>
    /\ awaiting = <<>>
    /\ req_id = 0

Init == (\E how \in ConnectOutcomes : aerospace_new(how)) /\ NoPeer

EnsureConnected ==
    \/ \E how \in ConnectOutcomes : EnsureDisconnected(how)
    \/ \E how \in ConnectOutcomes : EnsureRefresh(how)
    \/ EnsureKeep

ExecBegin ==
    \/ ExecInvalid
    \/ \E n \in ArgCounts : ExecNotConnected(n)
    \/ \E n \in ArgCounts : ExecFatal(n)
    \/ \E n \in ArgCounts : ExecWriteFailed(n)
    \/ \E n \in ArgCounts, f \in OutputFields : ExecWritten(n, f)

ExecLoop ==
    \/ ExecParsed
    \/ ExecOverflow
    \/ \E c \in Chunks(Min(MaxChunk, READ_BUFFER_SIZE)) \cup {<<>>} : ExecRead(c)
    \/ \E why \in ReadFailures : ExecReadFailed(why)

Next ==
    \/ EnsureConnected /\ UNCHANGED peer_vars
    \/ ExecBegin /\ UNCHANGED peer_vars
    \/ ExecLoop /\ UNCHANGED peer_vars
    \/ aerospace_close /\ UNCHANGED peer_vars

Spec == Init /\ [][Next]_vars

TypeOK ==
    /\ fd \in {NoFd} \cup (3..4)
    /\ read_buf_len \in Int
    /\ command_count \in 0..(MaxCount + 1)
    /\ pc \in {"idle", "reading", "closed", "exited"}

\* ------------------------------------------------------------------ claims (any peer)
\* the bytes of a sequence of chunks
RECURSIVE Flatten(_)
Flatten(chunks) == IF chunks = <<>> THEN <<>> ELSE Head(chunks) \o Flatten(Tail(chunks))

\* the steps of the operations, told apart by what they leave behind
IsEnsureStep == pc = "idle" /\ op' = "ensure"
IsWriteStep == pc = "idle" /\ pc' = "reading"
IsRejectStep == pc = "idle" /\ op' = "exec" /\ pc' # "reading"
IsLoopStep == pc = "reading"
Returned == pc = "idle" /\ op = "exec"

Count(calls, name) == Cardinality({i \in DOMAIN calls : calls[i] = name})

\* C1: read_buf_len stays between 0 and the capacity, it is the number of valid
\* bytes, and a document found in the buffer never consumes more than
\* read_buf_len bytes (so the subtraction of line 215 cannot underflow).
C1_BufferWithinCapacity ==
    /\ read_buf_len >= 0
    /\ read_buf_len <= READ_BUFFER_SIZE
    /\ Len(read_buf) = read_buf_len
    /\ HasDocument => yyjson_read_opts(read_buf, read_buf_len).read_size <= read_buf_len

\* C1 witness: the read loop holds a buffer filled to capacity by several reads,
\* on top of bytes left over from an earlier call.
C1_Witness ==
    /\ pc = "reading"
    /\ read_buf_len = READ_BUFFER_SIZE
    /\ entry_buf # <<>>
    /\ Len(delivered) >= 2

\* C2: between operations, no handle means an empty buffer and a zero counter.
C2_NoHandleMeansReset ==
    (pc = "idle" /\ fd = NoFd) => (read_buf_len = 0 /\ command_count = 0)

\* C5: a zero-byte read, a read timeout, another read error and a write error
\* each fail the call and leave no handle and an empty buffer, and
\* aerospace_ensure_connected called without a handle attempts a connect.
C5_DisconnectClassification ==
    [][ /\ (IsLoopStep /\ diag' \in ReadFailures)
            => (pc' = "idle" /\ fd' = NoFd /\ read_buf_len' = 0 /\ read_buf' = <<>>
                /\ result' = NULL /\ fd \notin open_fds')
        /\ (IsRejectStep /\ diag' = "write_failed")
            => (fd' = NoFd /\ read_buf_len' = 0 /\ read_buf' = <<>>
                /\ result' = NULL /\ fd \notin open_fds')
        /\ (IsEnsureStep /\ fd = NoFd)
            => (conn_calls' # <<>> /\ Head(conn_calls') = "socket")
      ]_vars

\* C5 witness: a reconnect attempt made after a read timed out on a partial message.
C5_Witness ==
    /\ pc = "idle"
    /\ op = "exec"
    /\ diag = "read_timeout"
    /\ delivered # <<>>
    /\ Head(Flatten(delivered)) = LB
    /\ fd = NoFd
    /\ read_buf_len = 0

\* C6: at the threshold of commands sent on the handle the next
\* aerospace_ensure_connected closes it, connects afresh and leaves the counter
\* zero (holding a new handle when the connect succeeds); below the threshold
\* it keeps the handle and changes neither buffer nor counter.
C6_ReconnectCounting ==
    [][ /\ (IsEnsureStep /\ fd >= 0 /\ sent >= AEROSPACE_RECONNECT_INTERVAL)
            => /\ Len(conn_calls') >= 2
               /\ conn_calls'[1] = "close"
               /\ conn_calls'[2] = "socket"
               /\ command_count' = 0
               /\ read_buf_len' = 0
               /\ (conn_calls' = <<"close", "socket", "connect">>) = (fd' >= 0)
               /\ fd' >= 0 => (sent' = 0 /\ open_fds' = {fd'})
        /\ (IsEnsureStep /\ fd >= 0 /\ sent < AEROSPACE_RECONNECT_INTERVAL)
            => /\ UNCHANGED <<fd, read_buf, read_buf_len, command_count, open_fds, sent>>
               /\ conn_calls' = <<>>
               /\ connected' = 1
      ]_vars

\* C6 witness: a handle replaced right after its threshold of commands.
C6_Witness ==
    /\ pc = "idle"
    /\ op = "ensure"
    /\ diag = "proactive_refresh"
    /\ conn_calls = <<"close", "socket", "connect">>
    /\ fd >= 0
    /\ command_count = 0

\* C7: the counter goes up by exactly one in the step that writes the command,
\* stays as it is through the whole read loop whatever its outcome, and stays
\* as it is in a call that is rejected or whose write fails.
C7_CountedOncePerWrite ==
    [][ /\ IsWriteStep => command_count' = command_count + 1
        /\ IsLoopStep => command_count' = command_count
        /\ IsRejectStep => command_count' = command_count
      ]_vars

\* C7 witness: a written command whose read ended with the peer closing.
C7_Witness ==
    /\ Returned
    /\ diag = "closed_by_peer"
    /\ command_count = 2

\* C8: a full buffer without a complete document ends the call with an
\* overflow: empty buffer, no result, handle kept.
C8_FramingOverflow ==
    [][ /\ (IsLoopStep /\ ~HasDocument /\ read_buf_len >= READ_BUFFER_SIZE)
            => (pc' = "idle" /\ diag' = "overflow")
        /\ (IsLoopStep /\ diag' = "overflow")
            => /\ read_buf_len' = 0
               /\ read_buf' = <<>>
               /\ result' = NULL
               /\ fd' = fd
               /\ fd' >= 0
               /\ open_fds' = open_fds
      ]_vars

\* C8 witness: an unterminated object filled the buffer and the call ended
\* with the overflow diagnostic and the handle still held.
C8_Witness ==
    /\ Returned
    /\ diag = "overflow"
    /\ entry_buf = <<>>
    /\ Len(Flatten(delivered)) = READ_BUFFER_SIZE
    /\ Head(Flatten(delivered)) = LB
    /\ fd >= 0
    /\ read_buf_len = 0
    /\ result = NULL

\* C10: aerospace_ensure_connected without a handle makes one connect attempt;
\* success installs the handle with empty buffer and zero counter and returns
\* 1, failure leaves no handle, empty buffer, zero counter and returns 0; the
\* process goes on; the return value says whether a handle is held.
C10_EnsureWithoutHandle ==
    [][ /\ (IsEnsureStep /\ fd = NoFd)
            => /\ Count(conn_calls', "socket") = 1
               /\ (conn_calls' = <<"socket", "connect">>) = (fd' >= 0)
               /\ read_buf_len' = 0
               /\ command_count' = 0
               /\ fd' >= 0 => (fd' \in open_fds' /\ connected' = 1)
               /\ fd' = NoFd => (open_fds' = {} /\ connected' = 0)
               /\ pc' = "idle"
        /\ IsEnsureStep => (connected' = 1) = (fd' >= 0)
      ]_vars

\* C10 witness: a connect that succeeded after a command had been counted on
\* the handle that was lost.
C10_Witness ==
    /\ pc = "idle"
    /\ op = "ensure"
    /\ diag = "reconnected"
    /\ connected = 1
    /\ fd >= 0
    /\ command_count = 0

\* ------------------------------------------------------------------ answering peer
\* The peer answers each command it has read with exactly one response, in
\* order, and the responses travel over `wire`.  A response is one JSON object,
\* followed or not by a newline.
RECURSIVE Pads(_)
Pads(n) == IF n <= 0 THEN <<>> ELSE <<Pad>> \o Pads(n - 1)

\* a response object of `size` units that reports success and the output `id`
OkDoc(id, size) == <<LB, ExitCode(0), Stdout(id)>> \o Pads(size - 4) \o <<RB>>

\* a response object without exitCode
MalformedDoc(id) == <<LB, Stdout(id), RB>>

Responses(id) ==
    LET docs == {OkDoc(id, 4), MalformedDoc(id), OkDoc(id, 2 * READ_BUFFER_SIZE)}
    IN docs \cup {d \o <<NL>> : d \in docs}

NextId(id) == (id % NumIds) + 1

\* the connection behind the handle is gone: nothing sent on it is read any more
Hangup == wire' = <<>> /\ awaiting' = <<>> /\ UNCHANGED req_id

InitFIFO == (\E how \in ConnectOutcomes : aerospace_new(how)) /\ NoPeer

EnsureConnectedFIFO ==
    \/ (\E how \in ConnectOutcomes : EnsureDisconnected(how)) /\ Hangup
    \/ (\E how \in ConnectOutcomes : EnsureRefresh(how)) /\ Hangup
    \/ EnsureKeep /\ UNCHANGED peer_vars

ExecBeginFIFO ==
    \/ ExecInvalid /\ UNCHANGED peer_vars
    \/ (\E n \in ArgCounts : ExecNotConnected(n)) /\ UNCHANGED peer_vars
    \/ (\E n \in ArgCounts : ExecFatal(n)) /\ UNCHANGED peer_vars
    \/ (\E n \in ArgCounts : ExecWriteFailed(n)) /\ Hangup
    \/ /\ \E n \in ArgCounts, f \in OutputFields : ExecWritten(n, f)
       /\ req_id' = NextId(req_id)
       /\ awaiting' = Append(awaiting, req_id')
       /\ UNCHANGED wire

\* read() returns the first n bytes in flight
ExecReadWire ==
    \E n \in 1..Len(wire) :
        /\ ExecRead(SubSeq(wire, 1, n))
        /\ wire' = SubSeq(wire, n + 1, Len(wire))
        /\ UNCHANGED <<awaiting, req_id>>

\* read() returns without bytes: end of stream and timeout only once nothing
\* is in flight, an error at any time
ExecReadFailedWire ==
    \E why \in ReadFailures :
        /\ why \in {"closed_by_peer", "read_timeout"} => wire = <<>>
        /\ ExecReadFailed(why)
        /\ Hangup

ExecLoopFIFO ==
    \/ ExecParsed /\ UNCHANGED peer_vars
    \/ ExecOverflow /\ UNCHANGED peer_vars
    \/ ExecReadWire
    \/ ExecReadFailedWire

\* the peer writes the response to the oldest command it has not answered
PeerRespond ==
    /\ awaiting # <<>>
    /\ \E r \in Responses(Head(awaiting)) : wire' = wire \o r
    /\ awaiting' = Tail(awaiting)
    /\ UNCHANGED req_id
    /\ UNCHANGED client_vars

NextFIFO ==
    \/ EnsureConnectedFIFO
    \/ ExecBeginFIFO
    \/ ExecLoopFIFO
    \/ PeerRespond
    \/ aerospace_close /\ Hangup

SpecFIFO == InitFIFO /\ [][NextFIFO]_vars

\* ------------------------------------------------------------------ pipelining peer
\* The peer has written NumDocs documents back-to-back on a fresh connection,
\* document i carrying the output of command i, each no larger than the buffer
\* and each pair separated by a newline or by nothing.  The commands that
\* follow are aerospace_list_workspaces calls; one more than there are
\* documents can be made.
DocSizes == 4..READ_BUFFER_SIZE

IdOf(i) == ((i - 1) % NumIds) + 1

RECURSIVE Streams(_)
Streams(i) ==
    IF i > NumDocs THEN {<<>>}
    ELSE {d \o sep \o rest :
            d \in {OkDoc(IdOf(i), n) : n \in DocSizes},
            sep \in (IF i < NumDocs THEN {<<>>, <<NL>>} ELSE {<<>>}),
            rest \in Streams(i + 1)}

InitStream ==
    /\ aerospace_new("ok")
    /\ wire \in Streams(1)
    /\ awaiting = <<>>
    /\ req_id = 0

ExecBeginStream ==
    /\ command_count <= NumDocs
    /\ \E n \in {3, 5} : ExecWritten(n, "stdout")
    /\ req_id' = NextId(req_id)
    /\ UNCHANGED <<wire, awaiting>>

ExecReadTimeoutStream ==
    /\ wire = <<>>
    /\ ExecReadFailed("read_timeout")
    /\ Hangup

NextStream ==
    \/ ExecBeginStream
    \/ ExecParsed /\ UNCHANGED peer_vars
    \/ ExecOverflow /\ UNCHANGED peer_vars
    \/ ExecReadWire
    \/ ExecReadTimeoutStream

SpecStream == InitStream /\ [][NextStream]_vars

\* ------------------------------------------------------------------ claims (pipelining peer)
\* C3: each of the first NumDocs calls returns the output of the document of
\* its own position, and after the last of them neither the buffer nor the
\* connection holds a byte.
C3_RoundTripFraming ==
    (Returned /\ command_count <= NumDocs)
        => /\ diag = "none"
           /\ result = Str(req_id)
           /\ command_count = NumDocs => (read_buf_len = 0 /\ wire = <<>>)

\* ------------------------------------------------------------------ claims (answering peer)
\* C4: a call that returns a string returns the output the peer sent in
\* answer to the command written in that call.
C4_FifoMatching ==
    (Returned /\ diag = "none" /\ result # NULL) => result = Str(req_id)

\* What the call would do had one read() returned everything that its reads
\* returned and left in flight.
Avail == Flatten(delivered) \o wire
RefBuf == entry_buf \o Avail
RefDoc == yyjson_read_opts(RefBuf, Len(RefBuf))
RefRest == Compact(RefBuf, Len(RefBuf), RefDoc.read_size)
RefOut == ExtractResult(RefDoc.root, expected_output_field)

\* a call has returned whose reads all returned bytes, the peer having sent
\* every response it owes, all of which fits in the buffer and completes a document
SplitDelivery ==
    /\ Returned
    /\ diag \notin ReadFailures
    /\ delivered # <<>>
    /\ awaiting = <<>>
    /\ Len(RefBuf) <= READ_BUFFER_SIZE
    /\ RefDoc.ok

\* C9 as stated: result, buffer, handle and counter are those of the single read.
C9_SplitSameAsSingleRead ==
    SplitDelivery
        => /\ result = RefOut.result
           /\ diag = RefOut.diag
           /\ read_buf = RefRest.read_buf
           /\ read_buf_len = RefRest.read_buf_len
           /\ fd >= 0
           /\ command_count = sent

\* C9 amended: result, handle and counter are those of the single read, and so
\* are the unconsumed bytes, the buffer followed by what is still in flight;
\* the buffer alone is the same when nothing is left in flight.
C9_SplitSameUnconsumedBytes ==
    SplitDelivery
        => /\ result = RefOut.result
           /\ diag = RefOut.diag
           /\ read_buf \o wire = RefRest.read_buf
           /\ read_buf_len + Len(wire) = RefRest.read_buf_len
           /\ wire = <<>> => (read_buf = RefRest.read_buf /\ read_buf_len = RefRest.read_buf_len)
           /\ fd >= 0
           /\ fd \in open_fds
           /\ command_count = sent

\* C9 witness: a response delivered by three reads and returned as a string.
C9_Witness ==
    /\ SplitDelivery
    /\ Len(delivered) >= 3
    /\ result = Str(req_id)

\* ------------------------------------------------------------------ claims (any peer), continued
\* C11: aerospace_ensure_connected on a handle whose counter has reached the
\* threshold closes it and leaves buffer length and counter zero whether or
\* not the connect succeeds; when it fails no handle is held and 0 is
\* returned, and a later call without a handle connects again.
C11_ProactiveRefresh ==
    [][ /\ (IsEnsureStep /\ fd >= 0 /\ command_count >= AEROSPACE_RECONNECT_INTERVAL)
            => /\ conn_calls' # <<>>
               /\ Head(conn_calls') = "close"
               /\ Count(conn_calls', "socket") = 1
               /\ read_buf_len' = 0
               /\ read_buf' = <<>>
               /\ command_count' = 0
               /\ (conn_calls' # <<"close", "socket", "connect">>)
                    => (fd' = NoFd /\ connected' = 0 /\ open_fds' = {} /\ pc' = "idle")
               /\ (conn_calls' = <<"close", "socket", "connect">>)
                    => (fd' >= 0 /\ connected' = 1)
        /\ (IsEnsureStep /\ fd = NoFd /\ op = "ensure" /\ diag = "reconnect_failed")
            => (Count(conn_calls', "socket") = 1 /\ (fd' >= 0) = (connected' = 1))
      ]_vars

\* C11 witness: a refresh whose connect failed, made while bytes were buffered.
C11_Witness ==
    /\ pc = "idle"
    /\ op = "ensure"
    /\ diag = "reconnect_failed"
    /\ conn_calls = <<"close", "socket", "connect", "close">>
    /\ fd = NoFd
    /\ read_buf_len = 0
    /\ command_count = 0
    /\ connected = 0

\* the step closes, opens or replaces the handle
HandleChanges == fd' # fd \/ (IsEnsureStep /\ fd >= 0 /\ conn_calls' # <<>>)
\* the step is the compaction after a parsed document
IsCompaction == IsLoopStep /\ HasDocument

\* C12: a step changes the handle exactly when it resets buffer length and
\* counter: a step that changes the handle leaves both zero, and a step that
\* keeps the handle clears neither a non-empty buffer (other than by consuming
\* a parsed document) nor a non-zero counter.
C12_ResetExactlyOnHandleChange ==
    [][ /\ HandleChanges => (read_buf_len' = 0 /\ command_count' = 0)
        /\ ~HandleChanges
            => /\ (read_buf_len > 0 /\ read_buf_len' = 0) => IsCompaction
               /\ (command_count > 0) => (command_count' # 0)
      ]_vars

\* ------------------------------------------------------------------ malformed response, then a good one
\* response objects whose exitCode is missing or is not an integer
MalformedDocs(id) ==
    {MalformedDoc(id), <<LB, Member("exitCode", "str", 0), Stdout(id), RB>>}

\* The peer has written a malformed response and then a well-formed one.
InitMalformed ==
    /\ aerospace_new("ok")
    /\ wire \in {bad \o sep \o OkDoc(2, n) :
                    bad \in MalformedDocs(1), sep \in {<<>>, <<NL>>}, n \in DocSizes}
    /\ awaiting = <<>>
    /\ req_id = 0

SpecMalformed == InitMalformed /\ [][NextStream]_vars

\* the document at the front of the buffer has no integer exitCode
FrontIsMalformed ==
    LET root == yyjson_read_opts(read_buf, read_buf_len).root
    IN ~\E i \in 1..Len(root) : root[i][1] = "exitCode" /\ root[i][2] = "int"

\* the call had to fit a separator and a document of full capacity
SeparatorBeforeFullDocument ==
    LET got == entry_buf \o Flatten(delivered)
    IN Len(got) = READ_BUFFER_SIZE /\ got[1] = NL

OtherMembers ==
    {Stderr(2), Member("stderr", "int", 2), Stdout(1), Member("stdout", "null", 0)}

\* integer exit codes: success, failure, and a failure beyond the range of int
ExitCodes == {ExitCode(0), ExitCode(1), ExitCode(IntRange)}

\* member lists with one integer exitCode and no key twice
MemberLists ==
    {ms \in UNION {[1..k -> ExitCodes \cup OtherMembers] : k \in 1..(READ_BUFFER_SIZE - 2)} :
        /\ \E i \in 1..Len(ms) : ms[i] \in ExitCodes
        /\ \A i, j \in 1..Len(ms) : ms[i][1] = ms[j][1] => i = j}

\* The peer has written one response object.
InitSelect ==
    /\ aerospace_new("ok")
    /\ wire \in {<<LB>> \o ms \o <<RB>> : ms \in MemberLists}
    /\ awaiting = <<>>
    /\ req_id = 0

\* aerospace_workspace (no output field) or aerospace_list_workspaces ("stdout")
ExecBeginSelect ==
    /\ command_count <= 1
    /\ \/ \E n \in {2, 3} : ExecWritten(n, "")
       \/ \E n \in {3, 5} : ExecWritten(n, "stdout")
    /\ req_id' = NextId(req_id)
    /\ UNCHANGED <<wire, awaiting>>

NextSelect ==
    \/ ExecBeginSelect
    \/ ExecParsed /\ UNCHANGED peer_vars
    \/ ExecReadWire
    \/ ExecReadTimeoutStream

SpecSelect == InitSelect /\ [][NextSelect]_vars

\* the values the response read by the call carries under key with the type
ValuesOf(key, type) ==
    LET got == Flatten(delivered)
    IN {got[i][3] : i \in {j \in 1..Len(got) : got[j][1] = key /\ got[j][2] = type}}

\* C15: the call that parsed a response with an integer exitCode returns,
\* when exitCode is not zero, the stderr string if there is one and NULL
\* otherwise, whatever output field was asked for; when exitCode is zero, the
\* string of the asked-for field if a field was asked for and the response has
\* it as a string, and NULL otherwise; it never reports a malformed response.
C15_ResultFieldSelection ==
    (Returned /\ command_count = 1 /\ fd >= 0)
        => /\ diag = "none"
           /\ \A code \in ValuesOf("exitCode", "int") :
                IF code # 0
                THEN /\ \A v \in ValuesOf("stderr", "str") : result = Str(v)
                     /\ ValuesOf("stderr", "str") = {} => result = NULL
                ELSE /\ expected_output_field # ""
                        => /\ \A v \in ValuesOf(expected_output_field, "str") : result = Str(v)
                           /\ ValuesOf(expected_output_field, "str") = {} => result = NULL
                     /\ expected_output_field = "" => result = NULL

\* ------------------------------------------------------------------ claims (any peer), concluded
\* C14: what a caller gets back tells the three outcomes apart: a string, no
\* result from a successful command, or a failure; the NULL that stands for
\* "no result" is never the return value of a failed call.
C14_AbsentResultIsNotFailure ==
    (Returned /\ result = NULL) => diag = "none"

\* The peer has written up to READ_BUFFER_SIZE bytes of any kind; a read takes
\* as many of them as the call asks for or fewer.
InitCompact ==
    /\ aerospace_new("ok")
    /\ wire \in Chunks(READ_BUFFER_SIZE)
    /\ awaiting = <<>>
    /\ req_id = 0

NextCompact ==
    \/ NextStream
    \/ EnsureKeep /\ UNCHANGED peer_vars

SpecCompact == InitCompact /\ [][NextCompact]_vars

\* C16: parsing a document of k bytes out of n buffered ones leaves exactly
\* the n - k bytes that followed it, in order, at the front of the buffer with
\* length n - k; they stay there until the next command is written and are
\* parsed by that call before it reads from the socket.
C16_PostParseCompaction ==
    [][ /\ (IsLoopStep /\ HasDocument)
            => LET k == yyjson_read_opts(read_buf, read_buf_len).read_size
                   n == read_buf_len
               IN /\ k >= 1
                  /\ k <= n
                  /\ read_buf_len' = n - k
                  /\ Len(read_buf') = n - k
                  /\ \A i \in 1..(n - k) : read_buf'[i] = read_buf[k + i]
                  /\ delivered' = delivered
                  /\ pc' = "idle"
        /\ (pc = "idle" /\ pc' = "idle" /\ ~HandleChanges /\ op' # "close")
            => (read_buf' = read_buf /\ read_buf_len' = read_buf_len)
        /\ IsWriteStep
            => /\ read_buf' = read_buf
               /\ read_buf_len' = read_buf_len
               /\ entry_buf' = SubSeq(read_buf, 1, read_buf_len)
               /\ delivered' = <<>>
      ]_vars

\* C16 witness: a call returned a document parsed from the bytes an earlier
\* call had left in the buffer, without reading from the socket.
C16_Witness ==
    /\ Returned
    /\ diag \in {"none", "no_exit_code"}
    /\ entry_buf # <<>>
    /\ delivered = <<>>
    /\ read_buf_len = Len(entry_buf) - yyjson_read_opts(entry_buf, Len(entry_buf)).read_size

\* C19: every iteration of the read loop either leaves the loop or adds at
\* least one byte to the buffer, so one call makes at most READ_BUFFER_SIZE
\* successful reads, whatever the peer sends; an iteration can always be taken.
C19_ReadLoopTerminates ==
    /\ [][IsLoopStep => (pc' = "idle" \/ (pc' = "reading" /\ read_buf_len' >= read_buf_len + 1))]_vars
    /\ [](Len(delivered) <= READ_BUFFER_SIZE)
    /\ [](pc = "reading"
            => /\ read_buf_len = Len(entry_buf) + Len(Flatten(delivered))
               /\ Len(delivered) <= read_buf_len - Len(entry_buf)
               /\ (HasDocument \/ Overflowed(read_buf_len) \/ ReadLimit(read_buf_len) >= 1))

\* C19 witness: READ_BUFFER_SIZE reads of one byte each, then the overflow exit.
C19_Witness ==
    /\ Returned
    /\ diag = "overflow"
    /\ entry_buf = <<>>
    /\ Len(delivered) = READ_BUFFER_SIZE

\* C20: the descriptors opened and not closed are none while no handle is
\* held and exactly the held one otherwise, and an operation that drops or
\* replaces a handle closes it before it opens anything.
C20_NoSocketLeak ==
    /\ open_fds = (IF fd = NoFd THEN {} ELSE {fd})
    /\ Cardinality(open_fds) <= 1
    /\ Count(conn_calls, "close") <= Count(conn_calls, "socket") + 1
    /\ (conn_calls # <<>> /\ Count(conn_calls, "close") > Count(conn_calls, "socket"))
            => Head(conn_calls) = "close"
    /\ (fd = NoFd /\ Count(conn_calls, "connect") = 1) => conn_calls[Len(conn_calls)] = "close"

\* C20 witness: a refresh closed the old handle and the connect that followed
\* failed, its descriptor being closed as well.
C20_Witness ==
    /\ op = "ensure"
    /\ conn_calls = <<"close", "socket", "connect", "close">>
    /\ fd = NoFd
    /\ open_fds = {}

\* ------------------------------------------------------------------ a caller that checks the connection first
\* The caller issues a command only right after aerospace_ensure_connected
\* returned 1.
ExecBeginChecked ==
    /\ op = "ensure"
    /\ connected = 1
    /\ \/ ExecInvalid
       \/ \E n \in ArgCounts : ExecFatal(n)
       \/ \E n \in ArgCounts : ExecWriteFailed(n)
       \/ \E n \in ArgCounts, f \in OutputFields : ExecWritten(n, f)

NextChecked ==
    \/ EnsureConnected /\ UNCHANGED peer_vars
    \/ ExecBeginChecked /\ UNCHANGED peer_vars
    \/ ExecLoop /\ UNCHANGED peer_vars
    \/ aerospace_close /\ UNCHANGED peer_vars

SpecChecked == Init /\ [][NextChecked]_vars

\* C17: with aerospace_ensure_connected called before every command and the
\* command issued only when it returned 1, no handle carries more than
\* AEROSPACE_RECONNECT_INTERVAL written commands and the counter never
\* exceeds AEROSPACE_RECONNECT_INTERVAL.
C17_BoundedHandleLifetime ==
    /\ sent <= AEROSPACE_RECONNECT_INTERVAL
    /\ command_count <= AEROSPACE_RECONNECT_INTERVAL
    /\ fd >= 0 => sent = command_count

\* C17 witness: a handle has carried exactly the threshold's number of commands.
C17_Witness ==
    /\ Returned
    /\ fd >= 0
    /\ sent = AEROSPACE_RECONNECT_INTERVAL
    /\ command_count = AEROSPACE_RECONNECT_INTERVAL

\* ------------------------------------------------------------------ a peer that accepts connections in the end
\* The client is never closed, the caller keeps calling
\* aerospace_ensure_connected and the peer accepts connections from some point
\* on: a connect that succeeds is not put off for ever.
NextRecovery ==
    \/ EnsureConnected /\ UNCHANGED peer_vars
    \/ ExecBegin /\ UNCHANGED peer_vars
    \/ ExecLoop /\ UNCHANGED peer_vars

SpecRecovery ==
    /\ Init
    /\ [][NextRecovery]_vars
    /\ WF_vars(EnsureDisconnected("ok") /\ UNCHANGED peer_vars)

\* C18: a client without a handle is idle, never terminated; once the peer
\* accepts connections and aerospace_ensure_connected keeps being called the
\* client holds a handle again; and the call whose connect the peer accepts
\* installs the handle and returns 1.
C18_RecoveryLiveness ==
    /\ [](fd = NoFd => pc = "idle")
    /\ [][(IsEnsureStep /\ fd = NoFd /\ conn_calls' = <<"socket", "connect">>)
            => (fd' >= 0 /\ connected' = 1 /\ pc' = "idle")]_vars
    /\ (fd = NoFd) ~> (fd >= 0)

\* C18 witness: aerospace_ensure_connected, called without a handle, obtained
\* one and returned 1.
C18_Witness ==
    /\ pc = "idle"
    /\ op = "ensure"
    /\ diag = "reconnected"
    /\ connected = 1
    /\ fd >= 0
    /\ conn_calls = <<"socket", "connect">>

====
